---- MODULE Spec2Model ----
(***************************************************************************)
(* connect-dyncache: the middleware that attaches conditional-caching      *)
(* helpers to an Express response (res.autoEtag, res.setEtag,              *)
(* res.setLastModifiedDate, res.setMaxAge, res.watchFile, res.isWatching,  *)
(* res.unwatchFile, res.isChanged) and the process-wide __watchFiles map.  *)
(*                                                                         *)
(* Encoding of JavaScript values:                                          *)
(*   - a string is a sequence of naturals (<<>> is the empty string),      *)
(*     Undefined == <<-1>> is `undefined` where a string is expected;      *)
(*   - a Date is its getTime() in clock ticks, NaN is an Invalid Date;     *)
(*   - a date string (a header value) is its whole number of seconds,      *)
(*     Garbage is a string that Date cannot parse, NoHeader an absent one. *)
(* JavaScript runs every handler call to completion, so each call is one   *)
(* action.                                                                 *)
(***************************************************************************)
EXTENDS Integers, Sequences, FiniteSets, TLC

VARIABLES
    watchFiles,   \* __watchFiles: path -> {changed, etag, modified, expires}
    files,        \* the file system: path -> fs.Stats of the files that exist
    now,          \* (new Date()).getTime()
    req,          \* the request's conditional headers
    res,          \* the response object with the middleware's additions
    last,         \* the handler's most recent call and what it returned
    calls,        \* number of calls the handler made on this response
    spent         \* number of calls made on the responses before it

vars == <<watchFiles, files, now, req, res, last, calls, spent>>

---------------------------------------------------------------------------
(* Bounds of the model *)

MaxTime == 2
MaxAge == 2
\* Calls of the handlers in one run, over all requests
MaxCalls == 3
\* Frames the engine allows before "RangeError: Maximum call stack size exceeded"
StackLimit == 3
\* Clock ticks per second: Date.prototype.toString() and HTTP dates drop
\* everything below the second
TicksPerSecond == 2

Times == 0..MaxTime
Ages == 0..MaxAge

---------------------------------------------------------------------------
(* JavaScript values *)

Undefined == <<-1>>
NoHash == <<-2>>
NaN == -1
NoHeader == -1
Garbage == -2

\* `if (s)` on a string or undefined
Truthy(s) == s # Undefined /\ s # <<>>

\* A parse that takes whatever is not a date for the epoch
ParseDateLenient(str) == IF str >= 0 THEN str * TicksPerSecond ELSE 0

\* new Date(<header string>): seconds to ticks; undefined or garbage is invalid
ParseDate(str) == IF str >= 0 THEN str * TicksPerSecond ELSE NaN

\* date.toString(): the resolution is one second
DateToString(d) == d \div TicksPerSecond

\* a <= b on two Dates: false as soon as one of them is invalid
DateLE(a, b) == a # NaN /\ b # NaN /\ a <= b

\* crypto.createHash('md5') ... digest('hex'): a hex string, never empty,
\* taken to be collision free on the inputs of the model
Digest(bytes) == <<0>> \o bytes

\* JSON.stringify(stats)
Stringify(stats) == <<stats.mtime, stats.size>>

\* The body Express is asked to send with a 304
CachedBody == <<67>>

\* 'private, must-revalidate, max-age=0, post-check=0, pre-check=0'
Revalidate ==
    << [name |-> "private", arg |-> -1],
       [name |-> "must-revalidate", arg |-> -1],
       [name |-> "max-age", arg |-> 0],
       [name |-> "post-check", arg |-> 0],
       [name |-> "pre-check", arg |-> 0] >>

---------------------------------------------------------------------------
(* Inputs *)

\* The file the handlers watch, and what its stats say besides the mtime
Paths == {"text.txt"}
Sizes == {1}
NoPath == ""
\* A second file, for the handlers that watch more than one
OtherPaths == {"other.txt"}

Bytes == {1}
Chunks == {<<>>} \cup {<<b>> : b \in Bytes}
EtagArgs == {<<>>, <<1>>, <<2>>}
Stats == [mtime : Times, size : Sizes]

\* What a handler passes to res.setExpires: a date, or nothing, and
\* new Date(undefined) is an invalid date
ExpiresArgs == Times \cup {NaN}

\* What a handler passes to res.setCacheControl as age (0 for none) and as
\* keywords (NoKeywords for none)
NoKeywords == << [name |-> "", arg |-> -1] >>
KeywordArgs == {NoKeywords, << [name |-> "private", arg |-> -1] >>}
AgeArgs == {0, 1}

\* What a client may send as If-None-Match: nothing, a tag a handler declares,
\* the digest of a body, the digest of a file's stats
IfNoneMatchValues ==
    {Undefined, <<1>>, <<2>>, Digest(<<1>>), Digest(<<1, 1>>)}
        \cup {Digest(Stringify(s)) : s \in [mtime : {0}, size : Sizes]}

\* What a client may send as If-Modified-Since
IfModifiedSinceValues ==
    {NoHeader, Garbage} \cup {DateToString(t) : t \in Times}

---------------------------------------------------------------------------
(* The response as Express hands it to the middleware, with the fields the
   middleware adds *)

NewResponse ==
    [ headers |-> [Etag |-> Undefined, LastModified |-> NoHeader,
                   CacheControl |-> <<>>, Expires |-> NoHeader],
      autoEtagSet |-> FALSE,
      wrappers |-> <<>>,
      dynMaxAge |-> 0,
      status |-> 200,
      body |-> <<>>,
      ended |-> 0 ]

NoCall ==
    [ op |-> "none", ret |-> FALSE, etag |-> Undefined, date |-> NaN,
      file |-> NoPath, force |-> FALSE, data |-> Undefined, age |-> 0,
      restats |-> 0, raised |-> FALSE ]

---------------------------------------------------------------------------
(* res.autoEtag *)

\* The closure res.autoEtag creates: its variables etag, lastModified, hash
\* and endCalled
NewClosure(r) ==
    [ etag |-> r.headers.Etag,
      lastModified |-> r.headers.LastModified,
      hash |-> IF Truthy(r.headers.Etag) \/ r.headers.LastModified # NoHeader
               THEN NoHash ELSE <<>>,
      endCalled |-> FALSE ]

\* An autoEtag without the _autoEtagSet guard: every call wraps again
AutoEtagAgain(r) ==
    [r EXCEPT !.wrappers = Append(@, NewClosure(r)), !.autoEtagSet = TRUE]

AutoEtagOp(r) ==
    IF r.autoEtagSet
    THEN r
    ELSE [r EXCEPT !.wrappers = Append(@, NewClosure(r)),
                   !.autoEtagSet = TRUE]

\* res.write(data): the patched writes, outermost (last installed) first,
\* then the original write
RECURSIVE WriteThrough(_, _, _)
WriteThrough(r, i, data) ==
    IF i = 0
    THEN [r EXCEPT !.body = @ \o data]
    ELSE LET w == r.wrappers[i]
             r1 == IF w.hash # NoHash
                   THEN [r EXCEPT !.wrappers[i].hash = @ \o data]
                   ELSE r
         IN  WriteThrough(r1, i - 1, data)

WriteOp(r, data) == WriteThrough(r, Len(r.wrappers), data)

\* etag && req.header("if-none-match") == etag
EtagMatches(etag) == Truthy(etag) /\ req.ifNoneMatch = etag

\* req.get('if-modified-since') && new Date(lastModified) <= ifModSince
NotModifiedSince(lastModified) ==
    /\ req.ifModifiedSince # NoHeader
    /\ DateLE(ParseDate(lastModified), ParseDate(req.ifModifiedSince))

\* A cached answer without its Cache-Control header
CachedNoHeader(r) == [r EXCEPT !.status = 304]

\* res.header('Cache-Control', ...) and res.status(304) of a cached answer
Cached(r) ==
    [r EXCEPT !.headers.CacheControl = Revalidate, !.status = 304]

\* The original res.end
OldEnd(r, data) ==
    [r EXCEPT !.body = IF data = Undefined THEN @ ELSE @ \o data,
              !.ended = @ + 1]

\* res.end(data): the patched ends, outermost first, then the original end.
\* res.status(304).send("Cached") ends the response through res.end again.
RECURSIVE EndThrough(_, _, _)

\* A cached answer that is ended once more after it was sent
SendCachedTwice(r) ==
    OldEnd(EndThrough(Cached(r), Len(r.wrappers), CachedBody), Undefined)

\* return res.status(304).send("Cached")
SendCached(r) == EndThrough(Cached(r), Len(r.wrappers), CachedBody)

EndThrough(r, i, data) ==
    IF i = 0
    THEN OldEnd(r, data)
    ELSE LET w == r.wrappers[i] IN
         IF w.endCalled
         THEN EndThrough(r, i - 1, data)
         ELSE LET hashing == Truthy(data) /\ w.hash # NoHash
                  etag == IF hashing THEN Digest(w.hash \o data) ELSE w.etag
                  r1 == [r EXCEPT !.wrappers[i].endCalled = TRUE]
                  r2 == IF hashing
                        THEN [r1 EXCEPT !.wrappers[i].hash = @ \o data,
                                        !.wrappers[i].etag = etag,
                                        !.headers.Etag = etag]
                        ELSE r1
              IN  IF EtagMatches(etag)
                  THEN SendCached(r2)
                  ELSE IF /\ w.lastModified # NoHeader
                          /\ NotModifiedSince(w.lastModified)
                  THEN SendCached(r2)
                  ELSE EndThrough(r2, i - 1, data)

EndOp(r, data) == EndThrough(r, Len(r.wrappers), data)

---------------------------------------------------------------------------
(* res.setEtag, res.setLastModifiedDate, res.setMaxAge *)

\* The return value the other way round
SetEtagInverted(r, etag) ==
    [ res |-> AutoEtagOp([r EXCEPT !.headers.Etag = etag]),
      ret |-> ~EtagMatches(etag) ]

SetEtagOp(r, etag) ==
    [ res |-> AutoEtagOp([r EXCEPT !.headers.Etag = etag]),
      ret |-> EtagMatches(etag) ]

\* A comparison that takes an equal date for a modification
SetLastModifiedDateStrict(r, date) ==
    [ res |-> AutoEtagOp([r EXCEPT !.headers.LastModified = DateToString(date)]),
      ret |-> ~( /\ ParseDate(req.ifModifiedSince) # NaN
                 /\ date < ParseDate(req.ifModifiedSince) ) ]

SetLastModifiedDateOp(r, date) ==
    [ res |-> AutoEtagOp([r EXCEPT !.headers.LastModified = DateToString(date)]),
      ret |-> ~DateLE(date, ParseDate(req.ifModifiedSince)) ]

SetMaxAgeOp(r, age) == [r EXCEPT !.dynMaxAge = age]

\* date.toUTCString(): the resolution is one second; "Invalid Date" for an
\* invalid date
ToUTCString(d) == IF d = NaN THEN Garbage ELSE DateToString(d)

\* res.setExpires(date): new Date(date) is an object, and every object is
\* truthy, so `||` always yields it and never the date made from the max-age
SetExpiresOp(r, date) ==
    LET made == date
        objectIsTruthy == TRUE
        chosen == IF objectIsTruthy THEN made ELSE now + r.dynMaxAge
    IN  [r EXCEPT !.headers.Expires = ToUTCString(chosen)]

\* res.setCacheControl(age, keywords)
SetCacheControlOp(r, age, keywords) ==
    LET kw == IF keywords = NoKeywords
              THEN << [name |-> "public", arg |-> -1] >>
              ELSE keywords
        a == IF age # 0 THEN age ELSE r.dynMaxAge
    IN  [r EXCEPT !.headers.CacheControl =
                      Append(kw, [name |-> "max-age", arg |-> a])]

---------------------------------------------------------------------------
(* The watched files *)

Put(cache, file, obj) ==
    [f \in DOMAIN cache \cup {file} |-> IF f = file THEN obj ELSE cache[f]]

Delete(cache, file) == [f \in DOMAIN cache \ {file} |-> cache[f]]

\* An entry that expires max-age after the request, not after the mtime
WatchEntryFromNow(r, stats) ==
    [ changed |-> now,
      modified |-> stats.mtime,
      expires |-> now + r.dynMaxAge,
      etag |-> Digest(Stringify(stats)) ]

\* The entry res.watchFile builds from fs.lstatSync(file)
WatchEntry(r, stats) ==
    [ changed |-> now,
      modified |-> stats.mtime,
      expires |-> stats.mtime + r.dynMaxAge,
      etag |-> Digest(Stringify(stats)) ]

\* A watchFile that answers for a missing file as for a found one
WatchFileAlways(cache, r, file) ==
    IF file \in DOMAIN files
    THEN [cache |-> Put(cache, file, WatchEntry(r, files[file])), ret |-> TRUE]
    ELSE [cache |-> cache, ret |-> TRUE]

WatchFileOp(cache, r, file) ==
    IF file \in DOMAIN files
    THEN [cache |-> Put(cache, file, WatchEntry(r, files[file])), ret |-> TRUE]
    ELSE [cache |-> cache, ret |-> FALSE]

IsWatchingOp(cache, file) == file \in DOMAIN cache

\* An unwatchFile that forgets every file
UnwatchEverything(cache, file) == [f \in {} |-> 0]

UnwatchFileOp(cache, file) ==
    IF file \in DOMAIN cache THEN Delete(cache, file) ELSE cache

\* The expiry test of res.isChanged
Expired(obj, force) == force \/ now > obj.expires

\* A file that is not watched reported as unchanged
NotWatchedUnchanged(cache, r, restats) ==
    [cache |-> cache, res |-> r, ret |-> FALSE, restats |-> restats,
     raised |-> FALSE]

\* A file that is not watched is assumed to always change
NotWatched(cache, r, restats) ==
    [cache |-> cache, res |-> r, ret |-> TRUE, restats |-> restats,
     raised |-> FALSE]

\* A verdict that takes one matching validator for enough
VerdictEither(isEtagged, isModified) == ~(isModified = FALSE \/ isEtagged)

\* We are not modified and our etag matches: the file is unchanged
Verdict(isEtagged, isModified) == ~(isModified = FALSE /\ isEtagged)

\* res.isChanged(file, force). depth counts the frames of the recursion,
\* restats the calls of res.watchFile it made. Beyond StackLimit frames the
\* engine throws a RangeError, which no frame catches.
RECURSIVE IsChangedRec(_, _, _, _, _, _)
IsChangedRec(cache, r, file, force, depth, restats) ==
    IF depth > StackLimit
    THEN [cache |-> cache, res |-> r, ret |-> FALSE, restats |-> restats,
          raised |-> TRUE]
    ELSE IF IsWatchingOp(cache, file)
    THEN LET obj == cache[file] IN
         IF Expired(obj, force)
         THEN LET w == WatchFileOp(Delete(cache, file), r, file)
              IN  IsChangedRec(w.cache, r, file, FALSE, depth + 1, restats + 1)
         ELSE LET isEtagged == SetEtagOp(r, obj.etag)
                  isModified == SetLastModifiedDateOp(isEtagged.res, obj.modified)
              IN  [cache |-> cache, res |-> isModified.res,
                   ret |-> Verdict(isEtagged.ret, isModified.ret),
                   restats |-> restats, raised |-> FALSE]
    ELSE NotWatched(cache, r, restats)

IsChangedOp(cache, r, file, force) == IsChangedRec(cache, r, file, force, 1, 0)

---------------------------------------------------------------------------
(* The state after the middleware is installed and a request has arrived *)

FileSystems ==
    UNION {[S -> [mtime : {0}, size : Sizes]] : S \in SUBSET Paths}

\* The file systems with the second file in them
TwoFileSystems ==
    UNION {[S \cup OtherPaths -> [mtime : {0}, size : Sizes]] :
              S \in SUBSET Paths}

Requests ==
    [ifNoneMatch : IfNoneMatchValues, ifModifiedSince : IfModifiedSinceValues]

Init ==
    /\ watchFiles = [f \in {} |-> 0]
    /\ files \in FileSystems
    /\ now = 0
    /\ req \in Requests
    /\ res = NewResponse
    /\ last = NoCall
    /\ calls = 0
    /\ spent = 0

---------------------------------------------------------------------------
(* The handler's calls *)

Called == spent + calls < MaxCalls /\ calls' = calls + 1

Env == <<files, now, req, spent>>

AutoEtag ==
    /\ Called
    /\ res' = AutoEtagOp(res)
    /\ last' = [NoCall EXCEPT !.op = "autoEtag"]
    /\ UNCHANGED <<watchFiles, Env>>

SetEtag ==
    \E etag \in EtagArgs :
        /\ Called
        /\ res' = SetEtagOp(res, etag).res
        /\ last' = [NoCall EXCEPT !.op = "setEtag", !.etag = etag,
                                  !.ret = SetEtagOp(res, etag).ret]
        /\ UNCHANGED <<watchFiles, Env>>

SetLastModifiedDate ==
    \E date \in Times :
        /\ Called
        /\ res' = SetLastModifiedDateOp(res, date).res
        /\ last' = [NoCall EXCEPT !.op = "setLastModifiedDate", !.date = date,
                                  !.ret = SetLastModifiedDateOp(res, date).ret]
        /\ UNCHANGED <<watchFiles, Env>>

SetMaxAge ==
    \E age \in Ages :
        /\ Called
        /\ res' = SetMaxAgeOp(res, age)
        /\ last' = [NoCall EXCEPT !.op = "setMaxAge", !.age = age]
        /\ UNCHANGED <<watchFiles, Env>>

SetExpires ==
    \E date \in ExpiresArgs :
        /\ Called
        /\ res' = SetExpiresOp(res, date)
        /\ last' = [NoCall EXCEPT !.op = "setExpires", !.date = date]
        /\ UNCHANGED <<watchFiles, Env>>

SetCacheControl ==
    \E age \in AgeArgs, keywords \in KeywordArgs :
        /\ Called
        /\ res' = SetCacheControlOp(res, age, keywords)
        /\ last' = [NoCall EXCEPT !.op = "setCacheControl", !.age = age]
        /\ UNCHANGED <<watchFiles, Env>>

Write ==
    \E data \in Chunks :
        /\ Called
        /\ res' = WriteOp(res, data)
        /\ last' = [NoCall EXCEPT !.op = "write", !.data = data]
        /\ UNCHANGED <<watchFiles, Env>>

End ==
    \E data \in Chunks \cup {Undefined} :
        /\ Called
        /\ res' = EndOp(res, data)
        /\ last' = [NoCall EXCEPT !.op = "end", !.data = data]
        /\ UNCHANGED <<watchFiles, Env>>

WatchFileCall(file) ==
    /\ Called
    /\ watchFiles' = WatchFileOp(watchFiles, res, file).cache
    /\ last' = [NoCall EXCEPT !.op = "watchFile", !.file = file,
                              !.ret = WatchFileOp(watchFiles, res, file).ret]
    /\ UNCHANGED <<res, Env>>

WatchFile == \E file \in Paths : WatchFileCall(file)

IsWatchingCall(file) ==
    /\ Called
    /\ last' = [NoCall EXCEPT !.op = "isWatching", !.file = file,
                              !.ret = IsWatchingOp(watchFiles, file)]
    /\ UNCHANGED <<watchFiles, res, Env>>

IsWatching == \E file \in Paths : IsWatchingCall(file)

UnwatchFileCall(file) ==
    /\ Called
    /\ watchFiles' = UnwatchFileOp(watchFiles, file)
    /\ last' = [NoCall EXCEPT !.op = "unwatchFile", !.file = file]
    /\ UNCHANGED <<res, Env>>

UnwatchFile == \E file \in Paths : UnwatchFileCall(file)

\* When the RangeError unwinds the stack, the innermost frame was either
\* between its delete and the re-insertion or past it
IsChangedCall(file, force) ==
    LET out == IsChangedOp(watchFiles, res, file, force) IN
    /\ Called
    /\ watchFiles' \in IF out.raised
                       THEN {out.cache, Delete(out.cache, file)}
                       ELSE {out.cache}
    /\ res' = out.res
    /\ last' = [NoCall EXCEPT !.op = "isChanged", !.file = file,
                              !.force = force, !.ret = out.ret,
                              !.restats = out.restats,
                              !.raised = out.raised]
    /\ UNCHANGED Env

IsChanged == \E file \in Paths, force \in BOOLEAN : IsChangedCall(file, force)

\* The same calls on a second file
WatchOther == \E file \in OtherPaths : WatchFileCall(file)

IsWatchingOther == \E file \in OtherPaths : IsWatchingCall(file)

UnwatchOther == \E file \in OtherPaths : UnwatchFileCall(file)

IsChangedOther ==
    \E file \in OtherPaths, force \in BOOLEAN : IsChangedCall(file, force)

---------------------------------------------------------------------------
(* The environment *)

Tick ==
    /\ now < MaxTime
    /\ now' = now + 1
    /\ UNCHANGED <<watchFiles, files, req, res, last, calls, spent>>

\* A file is created or rewritten
TouchFile ==
    \E file \in Paths, size \in Sizes :
        /\ files' = Put(files, file, [mtime |-> now, size |-> size])
        /\ files' # files
        /\ UNCHANGED <<watchFiles, now, req, res, last, calls, spent>>

RemoveFile ==
    \E file \in DOMAIN files :
        /\ files' = Delete(files, file)
        /\ UNCHANGED <<watchFiles, now, req, res, last, calls, spent>>

\* The next request: a fresh response object, the same __watchFiles
NewRequest ==
    /\ calls > 0
    /\ spent + calls < MaxCalls
    /\ spent' = spent + calls
    /\ req' \in Requests
    /\ res' = NewResponse
    /\ last' = NoCall
    /\ calls' = 0
    /\ UNCHANGED <<watchFiles, files, now>>

Next ==
    \/ AutoEtag
    \/ SetEtag
    \/ SetLastModifiedDate
    \/ SetMaxAge
    \/ SetExpires
    \/ SetCacheControl
    \/ Write
    \/ End
    \/ WatchFile
    \/ IsWatching
    \/ UnwatchFile
    \/ IsChanged
    \/ Tick
    \/ TouchFile
    \/ RemoveFile
    \/ NewRequest

Spec == Init /\ [][Next]_vars

\* The validators and the response alone: the handler declares, writes and
\* ends, request after request. res.isChanged acts on the response only
\* through res.setEtag and res.setLastModifiedDate, which are steps here.
NegotiationNext ==
    \/ AutoEtag
    \/ SetEtag
    \/ SetLastModifiedDate
    \/ Write
    \/ End
    \/ NewRequest

SpecNegotiation == Init /\ [][NegotiationNext]_vars

\* The watched files alone: the handler sets the max-age and watches, while
\* time passes and the files change
WatchNext ==
    \/ SetMaxAge
    \/ WatchFile
    \/ IsWatching
    \/ UnwatchFile
    \/ IsChanged
    \/ Tick
    \/ TouchFile
    \/ RemoveFile
    \/ NewRequest

SpecWatch == Init /\ [][WatchNext]_vars

\* The cache headers alone: the handler sets the max-age and composes
\* Expires and Cache-Control while time passes
ComposeNext ==
    \/ SetMaxAge
    \/ SetExpires
    \/ SetCacheControl
    \/ Tick
    \/ NewRequest

SpecCompose == Init /\ [][ComposeNext]_vars

\* A request that carries no usable validator: If-None-Match absent,
\* If-Modified-Since absent or not a date
BareRequests ==
    { r \in Requests : /\ r.ifNoneMatch = Undefined
                       /\ r.ifModifiedSince \in {NoHeader, Garbage} }

InitBare == Init /\ req \in BareRequests

\* One handler, on one request, with every call it may make
OneRequestNext ==
    \/ AutoEtag
    \/ SetEtag
    \/ SetLastModifiedDate
    \/ SetMaxAge
    \/ Write
    \/ End
    \/ WatchFile
    \/ IsWatching
    \/ UnwatchFile
    \/ IsChanged
    \/ Tick
    \/ TouchFile
    \/ RemoveFile

SpecBare == InitBare /\ [][OneRequestNext]_vars

\* Two files, both there when the request arrives
InitTwoFiles ==
    /\ watchFiles = [f \in {} |-> 0]
    /\ files \in TwoFileSystems
    /\ now = 0
    /\ req \in BareRequests
    /\ res = NewResponse
    /\ last = NoCall
    /\ calls = 0
    /\ spent = 0

\* One handler watching two files while time passes and the files change
TwoFilesNext ==
    \/ SetMaxAge
    \/ WatchFile
    \/ IsWatching
    \/ UnwatchFile
    \/ IsChanged
    \/ WatchOther
    \/ IsWatchingOther
    \/ UnwatchOther
    \/ IsChangedOther
    \/ Tick
    \/ TouchFile
    \/ RemoveFile

SpecTwoFiles == InitTwoFiles /\ [][TwoFilesNext]_vars

---------------------------------------------------------------------------
(* Properties *)

\* The step just taken is the handler's call of op
Step(op) == calls' = calls + 1 /\ last'.op = op

\* If-Modified-Since is present and parses to a date
ValidIfModifiedSince == req.ifModifiedSince \notin {NoHeader, Garbage}

\* C1: for a watched path and a non-zero max-age, isChanged(path, force)
\* returns, and it re-runs watchFile exactly once when force is true or the
\* entry has expired, and not at all otherwise.
C1_OneRestat ==
    [][ ( /\ Step("isChanged")
          /\ last'.file \in DOMAIN watchFiles
          /\ res.dynMaxAge # 0 )
        => /\ ~last'.raised
           /\ last'.restats =
                IF last'.force \/ now > watchFiles[last'.file].expires
                THEN 1 ELSE 0 ]_vars

\* C2: on a watched entry that has not expired, isChanged(path) without force
\* returns false exactly when If-None-Match equals the entry's etag and
\* If-Modified-Since is a valid date not earlier than the entry's modified
\* time; in every other case it returns true.
C2_UnchangedIffBoth ==
    [][ ( /\ Step("isChanged")
          /\ ~last'.force
          /\ last'.file \in DOMAIN watchFiles
          /\ now <= watchFiles[last'.file].expires )
        => LET obj == watchFiles[last'.file] IN
           last'.ret = ~( /\ req.ifNoneMatch = obj.etag
                          /\ ValidIfModifiedSince
                          /\ obj.modified
                               <= req.ifModifiedSince * TicksPerSecond ) ]_vars

\* C2 witness: isChanged found a watched, unexpired file unchanged
C2_Witness ==
    /\ last.op = "isChanged"
    /\ ~last.force
    /\ last.restats = 0
    /\ ~last.ret

\* The step just taken is the first res.end of a response on which
\* res.autoEtag has run
FirstFinalize ==
    /\ Step("end")
    /\ res.autoEtagSet
    /\ ~res.wrappers[1].endCalled

\* The verdict the validators etag and lastModified call for: the ETag matches,
\* or there is no ETag and Last-Modified is not later than a valid
\* If-Modified-Since
Unchanged(etag, lastModified) ==
    \/ etag # Undefined /\ etag = req.ifNoneMatch
    \/ /\ etag = Undefined
       /\ lastModified # NoHeader
       /\ ValidIfModifiedSince
       /\ lastModified <= req.ifModifiedSince

\* C3: the first finalize answers 304 exactly when the response's ETag equals
\* If-None-Match, or it has no ETag and its Last-Modified is not later than a
\* valid If-Modified-Since.
C3_FinalizeVerdict ==
    [][ FirstFinalize
        => ( res'.status = 304
             <=> Unchanged(res'.headers.Etag, res'.headers.LastModified) ) ]_vars

\* C4: when a validator was declared after auto-negotiation was enabled, the
\* first finalize decides on the values declared last.
C4_LastDeclaredDecides ==
    [][ ( /\ FirstFinalize
          /\ \/ res.wrappers[1].etag # res.headers.Etag
             \/ res.wrappers[1].lastModified # res.headers.LastModified )
        => ( res'.status = 304
             <=> Unchanged(res.headers.Etag, res.headers.LastModified) ) ]_vars

\* C5: setEtag(etag) sets the ETag header to etag and returns true exactly
\* when etag is not empty and If-None-Match is present and equal to it.
C5_SetEtag ==
    [][ Step("setEtag")
        => /\ res'.headers.Etag = last'.etag
           /\ last'.ret = ( /\ last'.etag # <<>>
                            /\ req.ifNoneMatch # Undefined
                            /\ req.ifNoneMatch = last'.etag ) ]_vars

\* C5 witness: a setEtag that reported a match
C5_Witness == last.op = "setEtag" /\ last.ret

C7_DigestOfBody ==
    [][ ( /\ FirstFinalize
          /\ res.headers.Etag = Undefined
          /\ res.headers.LastModified = NoHeader
          /\ res.wrappers[1].hash = res.body )
        => LET sent == IF last'.data = Undefined
                       THEN res.body ELSE res.body \o last'.data
           IN  sent # <<>>
               => /\ res'.headers.Etag = Digest(sent)
                  /\ res'.status = 304 <=> req.ifNoneMatch = Digest(sent) ]_vars

\* C8: a call of autoEtag on a response on which it has already run changes
\* nothing of the response, and write and end are never wrapped twice.
C8_AutoEtagIdempotent ==
    [][ /\ (Step("autoEtag") /\ res.autoEtagSet) => res' = res
        /\ Len(res'.wrappers) <= 1 ]_vars

\* C8 witness: autoEtag, a write that was hashed, and autoEtag again
C8_Witness ==
    /\ last.op = "autoEtag"
    /\ calls = 3
    /\ res.body # <<>>
    /\ res.wrappers[1].hash = res.body

\* 'private, must-revalidate, max-age=0'
RevalidateShort == SubSeq(Revalidate, 1, 3)

\* C9, as claimed: after setEtag(e) alone, finalizing with a body gives 304,
\* "Cached" and Cache-Control: private, must-revalidate, max-age=0 when
\* If-None-Match equals e, and otherwise 200, ETag: e, the body as given and
\* no such Cache-Control.
C9_AsClaimed ==
    [][ ( /\ Step("end")
          /\ calls = 1
          /\ last.op = "setEtag"
          /\ Truthy(last'.data) )
        => IF req.ifNoneMatch = last.etag
           THEN /\ res'.status = 304
                /\ res'.body = CachedBody
                /\ res'.headers.CacheControl = RevalidateShort
           ELSE /\ res'.status = 200
                /\ res'.headers.Etag = last.etag
                /\ res'.body = last'.data
                /\ res'.headers.CacheControl # RevalidateShort ]_vars

\* C9, amended: the same for a non-empty e, the Cache-Control of the 304 being
\* private, must-revalidate, max-age=0, post-check=0, pre-check=0.
C9_DeclaredEtagScenario ==
    [][ ( /\ Step("end")
          /\ calls = 1
          /\ last.op = "setEtag"
          /\ last.etag # <<>>
          /\ Truthy(last'.data) )
        => IF req.ifNoneMatch = last.etag
           THEN /\ res'.status = 304
                /\ res'.body = CachedBody
                /\ res'.headers.CacheControl = Revalidate
           ELSE /\ res'.status = 200
                /\ res'.headers.Etag = last.etag
                /\ res'.body = last'.data
                /\ res'.headers.CacheControl = <<>> ]_vars

\* C9 witness: setEtag(e) then end(body) answered 304 to If-None-Match: e
C9_Witness ==
    /\ last.op = "end"
    /\ calls = 2
    /\ Truthy(last.data)
    /\ res.headers.Etag \in EtagArgs
    /\ res.wrappers[1].etag = req.ifNoneMatch
    /\ res.status = 304

\* C10: isChanged on a path that is not watched returns true whatever force
\* is, without a stat, and leaves __watchFiles and the response's headers as
\* they were.
C10_Unwatched ==
    [][ ( /\ Step("isChanged")
          /\ last'.file \notin DOMAIN watchFiles )
        => /\ last'.ret
           /\ ~last'.raised
           /\ last'.restats = 0
           /\ watchFiles' = watchFiles
           /\ res'.headers = res.headers ]_vars

\* C10 witness: a forced isChanged on a path that is not watched
C10_Witness ==
    /\ last.op = "isChanged"
    /\ last.force
    /\ last.restats = 0
    /\ last.ret
    /\ last.file \notin DOMAIN watchFiles

\* C11: watchFile on a path that does not exist returns false and leaves
\* __watchFiles as it was; and when isChanged refreshes a forced or expired
\* entry whose file is gone, it returns true and the path is no longer watched.
C11_MissingFile ==
    [][ /\ ( Step("watchFile") /\ last'.file \notin DOMAIN files )
           => ( ~last'.ret /\ watchFiles' = watchFiles )
        /\ ( /\ Step("isChanged")
             /\ last'.file \in DOMAIN watchFiles
             /\ last'.file \notin DOMAIN files
             /\ ( last'.force \/ now > watchFiles[last'.file].expires ) )
           => ( /\ last'.ret
                /\ ~last'.raised
                /\ last'.file \notin DOMAIN watchFiles' ) ]_vars

\* C11 witness: isChanged re-ran watchFile for a file that is gone
C11_Witness ==
    /\ last.op = "isChanged"
    /\ last.restats = 1
    /\ last.ret
    /\ last.file \notin DOMAIN files
    /\ last.file \notin DOMAIN watchFiles

C13_ExpiresGrows ==
    [][ ( /\ Step("isChanged")
          /\ last'.file \in DOMAIN watchFiles
          /\ now > watchFiles[last'.file].expires
          /\ res.dynMaxAge # 0
          /\ last'.file \in DOMAIN files )
        => /\ last'.file \in DOMAIN watchFiles'
           /\ watchFiles'[last'.file].expires
                > watchFiles[last'.file].expires ]_vars

C15_NoChangeAfterEnd ==
    [][ ( /\ res.ended > 0
          /\ \/ Step("setEtag")
             \/ Step("setLastModifiedDate")
             \/ Step("isChanged")
             \/ Step("setCacheControl")
             \/ Step("setExpires") )
        => /\ res'.headers = res.headers
           /\ res'.status = res.status
           /\ ~last'.raised ]_vars

\* C16: setExpires without a date sets Expires to the current time plus the
\* response's max-age, and with a date to that date.
C16_Expires ==
    [][ Step("setExpires")
        => res'.headers.Expires =
             IF last'.date = NaN
             THEN ToUTCString(now + res.dynMaxAge)
             ELSE ToUTCString(last'.date) ]_vars

\* What a res.end that goes straight to the original end does: the data is
\* appended, and nothing else of the response changes
PassedThrough(data) ==
    /\ res'.headers = res.headers
    /\ res'.status = res.status
    /\ res'.wrappers = res.wrappers
    /\ res'.body = IF data = Undefined THEN res.body ELSE res.body \o data

C18_OneRestatPerExpiry ==
    [][ ( /\ Step("isChanged")
          /\ last'.file \in DOMAIN watchFiles
          /\ ~last'.force
          /\ now > watchFiles[last'.file].expires )
        => /\ ~last'.raised
           /\ last'.restats <= 1
           /\ last'.file \in DOMAIN watchFiles'
              => now <= watchFiles'[last'.file].expires ]_vars

\* C19: a path is watched after a step exactly when the step's call on it was
\* a successful watchFile or a refresh in isChanged that found the file, or
\* when it was watched before and the step was no unwatchFile and no failed
\* refresh of it; isWatching answers with that and changes nothing,
\* unwatchFile of an unwatched path changes nothing, and no call on one path
\* changes the entry of another.
C19_WatchedIffLastWatchSucceeded ==
    [][ /\ \A f \in DOMAIN watchFiles \cup DOMAIN watchFiles' :
             f # last'.file
             => /\ f \in DOMAIN watchFiles
                /\ f \in DOMAIN watchFiles'
                /\ watchFiles'[f] = watchFiles[f]
        /\ Step("watchFile")
           => IF last'.ret
              THEN last'.file \in DOMAIN watchFiles'
              ELSE watchFiles' = watchFiles
        /\ Step("unwatchFile")
           => /\ last'.file \notin DOMAIN watchFiles'
              /\ last'.file \notin DOMAIN watchFiles => watchFiles' = watchFiles
        /\ Step("isWatching")
           => /\ watchFiles' = watchFiles
              /\ last'.ret = (last'.file \in DOMAIN watchFiles)
        /\ ( Step("isChanged") /\ last'.restats = 0 )
           => watchFiles' = watchFiles
        /\ ( Step("isChanged") /\ last'.restats > 0 /\ ~last'.raised )
           => ( last'.file \in DOMAIN watchFiles'
                  <=> last'.file \in DOMAIN files )
        /\ calls' = calls => watchFiles' = watchFiles ]_vars

\* C19 witness: of two watched paths one was unwatched and the other is still
\* watched
C19_Witness ==
    /\ last.op = "unwatchFile"
    /\ last.file \notin DOMAIN watchFiles
    /\ \E f \in DOMAIN watchFiles : f # last.file

\* C20: when setEtag(e) returned true (the response's ETag is the request's
\* If-None-Match) and nothing else was declared (no Last-Modified, no other
\* tag read by res.autoEtag), the first res.end answers 304 "Cached" with
\* ETag e.
C20_EarlyVerdictHolds ==
    [][ ( /\ Step("end")
          /\ res.ended = 0
          /\ calls <= 2
          /\ Truthy(res.headers.Etag)
          /\ res.headers.Etag = req.ifNoneMatch
          /\ res.headers.LastModified = NoHeader
          /\ res.autoEtagSet
          /\ res.wrappers[1].etag \in {Undefined, res.headers.Etag}
          /\ res.wrappers[1].lastModified = NoHeader )
        => /\ res'.status = 304
           /\ res'.body = res.body \o CachedBody
           /\ res'.headers.Etag = res.headers.Etag ]_vars

====
